---------------------------- MODULE Spec2Model ----------------------------
(***************************************************************************)
(* Model of EdmxToEnhancedOpenApiConverter (edmx_to_enhanced_openapi.py):  *)
(* the capability extractor and the five enhancement stages that run over  *)
(* the in-memory OpenAPI document.                                         *)
(*                                                                         *)
(* Python strings are sequences of one-character strings, so that          *)
(* startswith, endswith, split, replace and the substring test `in` are    *)
(* computed character by character as the code computes them.  A missing   *)
(* attribute, a None and an empty string are all the empty sequence: the   *)
(* code only ever tests them for truthiness.                               *)
(***************************************************************************)
EXTENDS Naturals, Sequences, FiniteSets

----------------------------------------------------------------------------
(* Bounds of the model *)

\* EntitySet elements read from one metadata document
MaxSets == 2
\* paths of one base document
MaxPaths == 1
\* times _enhance_openapi_spec is applied to the document of one conversion
MaxPasses == 2
\* conversions run on one converter instance (SpecReuse)
MaxRuns == 2

----------------------------------------------------------------------------
(* String literals of the source *)

BatchPrefix == <<"/","$","b","a","t","c","h">>
ApiCategoryRoutesPrefix == <<"/","a","p","i","c","a","t","e","g","o","r","y","r","o","u","t","e","s">>
CompaniesPrefix == <<"/","c","o","m","p","a","n","i","e","s">>
EntityDefinitionsLowerPrefix == <<"/","e","n","t","i","t","y","d","e","f","i","n","i","t","i","o","n","s">>
ExternalBusinessEventDefinitionsPrefix == <<"/","e","x","t","e","r","n","a","l","b","u","s","i","n","e","s","s","e","v","e","n","t","d","e","f","i","n","i","t","i","o","n","s">>
ExternalEventSubscriptionsPrefix == <<"/","e","x","t","e","r","n","a","l","e","v","e","n","t","s","u","b","s","c","r","i","p","t","i","o","n","s">>
SubscriptionsPrefix == <<"/","s","u","b","s","c","r","i","p","t","i","o","n","s">>
EntityDefinitionsPrefix == <<"/","e","n","t","i","t","y","D","e","f","i","n","i","t","i","o","n","s">>
CompaniesKeyed == <<"/","c","o","m","p","a","n","i","e","s","(","{","i","d","}",")">>
CompanyScopePrefix == <<"/","c","o","m","p","a","n","i","e","s","(","{","i","d","}",")","/">>
CompaniesParen == <<"c","o","m","p","a","n","i","e","s","(">>
SchemaRefPrefix == <<"#","/","c","o","m","p","o","n","e","n","t","s","/","s","c","h","e","m","a","s","/">>
NavNamespace == <<"M","i","c","r","o","s","o","f","t",".","N","A","V",".">>
CreateSuffix == <<"-","c","r","e","a","t","e">>
UpdateSuffix == <<"-","u","p","d","a","t","e">>
CompanyParamRef == <<"#","/","c","o","m","p","o","n","e","n","t","s","/","p","a","r","a","m","e","t","e","r","s","/","c","o","m","p","a","n","y">>
InsertRestrictions == <<"I","n","s","e","r","t","R","e","s","t","r","i","c","t","i","o","n","s">>
UpdateRestrictions == <<"U","p","d","a","t","e","R","e","s","t","r","i","c","t","i","o","n","s">>
DeleteRestrictions == <<"D","e","l","e","t","e","R","e","s","t","r","i","c","t","i","o","n","s">>
TrueText == <<"t","r","u","e">>

\* _add_company_parameter's list of prefixes that get no company parameter
CompanyExemptPrefixes ==
    { BatchPrefix, ApiCategoryRoutesPrefix, CompaniesPrefix,
      EntityDefinitionsLowerPrefix, ExternalBusinessEventDefinitionsPrefix,
      ExternalEventSubscriptionsPrefix, SubscriptionsPrefix,
      EntityDefinitionsPrefix }

\* _remove_navigation_paths's system_prefixes
system_prefixes ==
    { BatchPrefix, ApiCategoryRoutesPrefix, EntityDefinitionsLowerPrefix,
      ExternalBusinessEventDefinitionsPrefix, ExternalEventSubscriptionsPrefix,
      SubscriptionsPrefix, EntityDefinitionsPrefix }

\* _remove_system_fields_from_mutation_schemas's system_fields
system_fields ==
    { "systemCreatedAt", "systemCreatedBy", "systemModifiedAt", "systemModifiedBy" }

----------------------------------------------------------------------------
(* Python's str operations *)

StartsWith(s, p) == Len(p) <= Len(s) /\ SubSeq(s, 1, Len(p)) = p

EndsWith(s, p) == Len(p) <= Len(s) /\ SubSeq(s, Len(s) - Len(p) + 1, Len(s)) = p

\* sub in s
Contains(s, sub) ==
    \E i \in 1..(Len(s) + 1) : i + Len(sub) - 1 <= Len(s)
                               /\ SubSeq(s, i, i + Len(sub) - 1) = sub

\* c in s, for one character
HasChar(s, c) == \E i \in 1..Len(s) : s[i] = c

\* s[n:]
DropFirst(s, n) == IF n >= Len(s) THEN <<>> ELSE SubSeq(s, n + 1, Len(s))

\* s.lstrip(c), s.rstrip(c), s.strip(c) for one character c
RECURSIVE LStrip(_, _)
LStrip(s, c) == IF s # <<>> /\ Head(s) = c THEN LStrip(Tail(s), c) ELSE s

RECURSIVE RStrip(_, _)
RStrip(s, c) ==
    IF s # <<>> /\ s[Len(s)] = c THEN RStrip(SubSeq(s, 1, Len(s) - 1), c) ELSE s

Strip(s, c) == RStrip(LStrip(s, c), c)

\* the index of the first c in s, 0 if there is none
RECURSIVE FirstIndex(_, _, _)
FirstIndex(s, c, i) ==
    IF i > Len(s) THEN 0 ELSE IF s[i] = c THEN i ELSE FirstIndex(s, c, i + 1)

\* the index of the last c in s, 0 if there is none
RECURSIVE LastIndex(_, _, _)
LastIndex(s, c, i) ==
    IF i < 1 THEN 0 ELSE IF s[i] = c THEN i ELSE LastIndex(s, c, i - 1)

\* s.split(c): the list of the pieces between the occurrences of c
RECURSIVE Split(_, _)
Split(s, c) ==
    LET i == FirstIndex(s, c, 1)
    IN  IF i = 0 THEN <<s>>
        ELSE <<SubSeq(s, 1, i - 1)>> \o Split(DropFirst(s, i), c)

\* s.split(c)[0]
BeforeFirst(s, c) == Split(s, c)[1]

\* s.split(c)[-1]
AfterLast(s, c) == DropFirst(s, LastIndex(s, c, Len(s)))

\* s.rsplit(c, 1)[0]
BeforeLast(s, c) ==
    LET i == LastIndex(s, c, Len(s))
    IN  IF i = 0 THEN s ELSE SubSeq(s, 1, i - 1)

\* s.replace(old, ''): every occurrence of old removed, left to right
RECURSIVE RemoveAll(_, _)
RemoveAll(s, old) ==
    IF s = <<>> THEN <<>>
    ELSE IF StartsWith(s, old) THEN RemoveAll(DropFirst(s, Len(old)), old)
    ELSE <<Head(s)>> \o RemoveAll(Tail(s), old)

\* one character lower-cased
LowerChar(c) ==
    CASE c = "T" -> "t" [] c = "R" -> "r" [] c = "U" -> "u" [] c = "E" -> "e"
      [] c = "F" -> "f" [] c = "A" -> "a" [] c = "L" -> "l" [] c = "S" -> "s"
      [] OTHER -> c

\* s.lower()
Lower(s) == [i \in 1..Len(s) |-> LowerChar(s[i])]

\* [x for x in seq if x]: the non-empty pieces
RECURSIVE NonEmpty(_)
NonEmpty(seq) ==
    IF seq = <<>> THEN <<>>
    ELSE IF Head(seq) = <<>> THEN NonEmpty(Tail(seq))
    ELSE <<Head(seq)>> \o NonEmpty(Tail(seq))

----------------------------------------------------------------------------
(* The metadata document: what ET.parse hands to the extractor *)

InsertTerm == <<"O","r","g",".","O","D","a","t","a",".","C","a","p","a","b","i","l","i","t","i","e","s",".","V","1",".">> \o InsertRestrictions
UpdateTerm == <<"O","r","g",".","O","D","a","t","a",".","C","a","p","a","b","i","l","i","t","i","e","s",".","V","1",".">> \o UpdateRestrictions
DeleteTerm == <<"O","r","g",".","O","D","a","t","a",".","C","a","p","a","b","i","l","i","t","i","e","s",".","V","1",".">> \o DeleteRestrictions
OtherTerm == <<"O","r","g",".","O","D","a","t","a",".","C","o","r","e",".","V","1",".","D","e","s","c","r","i","p","t","i","o","n">>
BoolFalse == <<"f","a","l","s","e">>
BoolTrueUpper == <<"T","r","u","e">>
ItemsName == <<"I","t","e","m","s">>
ItemCatsName == <<"I","t","e","m","C","a","t","s">>
ItemTypeName == <<"I","t","e","m">>
ItemCatTypeName == <<"I","t","e","m","C","a","t">>
StockName == <<"S","t","o","c","k">>
PartsName == <<"P","a","r","t","s">>

\* a PropertyValue element: its Property attribute and its Bool attribute
PropertyValue(prop, hasBool, bool) ==
    [Property |-> prop, hasBool |-> hasBool, Bool |-> bool]

\* an Annotation element: its Term attribute and its nested PropertyValue elements
Annotation(term, pvs) == [Term |-> term, PropertyValues |-> pvs]

\* the annotations an EntitySet element of the model may carry: at most one
\* per term.  An InsertRestrictions annotation has no PropertyValue, or
\* Insertable with Bool="false", Bool="True" or no Bool attribute, or a
\* Deletable instead of an Insertable
InsertAnnotations ==
    { <<>>,
      <<Annotation(InsertTerm, <<>>)>>,
      <<Annotation(InsertTerm, <<PropertyValue("Insertable", TRUE, BoolFalse)>>)>>,
      <<Annotation(InsertTerm, <<PropertyValue("Insertable", TRUE, BoolTrueUpper)>>)>>,
      <<Annotation(InsertTerm, <<PropertyValue("Insertable", FALSE, <<>>)>>)>>,
      <<Annotation(InsertTerm, <<PropertyValue("Deletable", TRUE, BoolFalse)>>)>> }

UpdateAnnotations ==
    { <<>>,
      <<Annotation(UpdateTerm, <<PropertyValue("Updatable", TRUE, BoolFalse)>>)>> }

DeleteAnnotations ==
    { <<>>,
      <<Annotation(DeleteTerm, <<PropertyValue("Deletable", TRUE, BoolFalse)>>)>> }

OtherAnnotations == { <<>>, <<Annotation(OtherTerm, <<>>)>> }

AnnotationLists ==
    { i \o u \o d \o o : i \in InsertAnnotations, u \in UpdateAnnotations,
                         d \in DeleteAnnotations, o \in OtherAnnotations }

EntitySet(name, entity_type, annotations) ==
    [Name |-> name, EntityType |-> entity_type, Annotations |-> annotations]

\* the annotation lists of the other entity sets: none, or Insertable false
FewAnnotationLists ==
    { <<>>,
      <<Annotation(InsertTerm, <<PropertyValue("Insertable", TRUE, BoolFalse)>>)>> }

\* the EntitySet elements of the model: Items of type Item with any of the
\* annotation lists, ItemCats of type ItemCat unrestricted or not
\* insertable, one element without a Name and one without an EntityType,
\* and Parts, a second entity set of type Item, unrestricted or not insertable
EntitySetChoices ==
    { EntitySet(ItemsName, NavNamespace \o ItemTypeName, a) : a \in AnnotationLists }
    \cup { EntitySet(ItemCatsName, NavNamespace \o ItemCatTypeName, a) :
             a \in FewAnnotationLists }
    \cup { EntitySet(<<>>, NavNamespace \o ItemTypeName, <<>>),
           EntitySet(StockName, <<>>, <<>>) }
    \cup { EntitySet(PartsName, NavNamespace \o ItemTypeName, a) :
             a \in FewAnnotationLists }

----------------------------------------------------------------------------
(* The capability extractor, _parse_edmx_capabilities *)

\* a variant: the record would start with insertable false
DefaultCapabilities_NotInsertable ==
    [insertable |-> FALSE, updatable |-> TRUE, deletable |-> TRUE]

\* the record an entity set starts with
DefaultCapabilities ==
    [insertable |-> TRUE, updatable |-> TRUE, deletable |-> TRUE]

\* all(capabilities.values())
AllAllowed(caps) == caps.insertable /\ caps.updatable /\ caps.deletable

\* entity_type.split('.')[-1] if '.' in entity_type else entity_type
EntityTypeName(entity_type) ==
    IF HasChar(entity_type, ".") THEN AfterLast(entity_type, ".") ELSE entity_type

\* annotation.find('.//edm:PropertyValue[@Property="..."]'): the first
\* PropertyValue with that Property, as a list of at most one element
RECURSIVE FindPropertyValue(_, _)
FindPropertyValue(pvs, prop) ==
    IF pvs = <<>> THEN <<>>
    ELSE IF Head(pvs).Property = prop THEN <<Head(pvs)>>
    ELSE FindPropertyValue(Tail(pvs), prop)

\* a variant: the comparison would be case-sensitive
BoolIsTrue_CaseSensitive(pv) == (IF pv.hasBool THEN pv.Bool ELSE TrueText) = TrueText

\* prop.get('Bool', 'true').lower() == 'true'
BoolIsTrue(pv) == Lower(IF pv.hasBool THEN pv.Bool ELSE TrueText) = TrueText

\* one iteration of the loop over an entity set's annotations
ApplyAnnotation(caps, ann) ==
    IF Contains(ann.Term, InsertRestrictions) THEN
        LET found == FindPropertyValue(ann.PropertyValues, "Insertable")
        IN  IF found # <<>> THEN [caps EXCEPT !.insertable = BoolIsTrue(found[1])]
            ELSE caps
    ELSE IF Contains(ann.Term, UpdateRestrictions) THEN
        LET found == FindPropertyValue(ann.PropertyValues, "Updatable")
        IN  IF found # <<>> THEN [caps EXCEPT !.updatable = BoolIsTrue(found[1])]
            ELSE caps
    ELSE IF Contains(ann.Term, DeleteRestrictions) THEN
        LET found == FindPropertyValue(ann.PropertyValues, "Deletable")
        IN  IF found # <<>> THEN [caps EXCEPT !.deletable = BoolIsTrue(found[1])]
            ELSE caps
    ELSE caps

\* the record of an entity set: the defaults, then its annotations in order
RECURSIVE ApplyAnnotations(_, _)
ApplyAnnotations(caps, anns) ==
    IF anns = <<>> THEN caps
    ELSE ApplyAnnotations(ApplyAnnotation(caps, Head(anns)), Tail(anns))

ExtractCapabilities(entity_set) ==
    ApplyAnnotations(DefaultCapabilities, entity_set.Annotations)

\* d[key] = value on a dict kept as a function
DictSet(d, key, value) ==
    [k \in DOMAIN d \cup {key} |-> IF k = key THEN value ELSE d[k]]

\* d[key] = value on a dict whose iteration order matters: a list of
\* (key, value) items; a key already present keeps its place
OrderedKeys(items) == { items[i].key : i \in 1..Len(items) }

OrderedSet(items, key, value) ==
    IF key \in OrderedKeys(items)
    THEN [i \in 1..Len(items) |->
            IF items[i].key = key THEN [key |-> key, value |-> value] ELSE items[i]]
    ELSE Append(items, [key |-> key, value |-> value])

\* d[key] on such a dict
OrderedGet(items, key) ==
    LET i == CHOOSE j \in 1..Len(items) : items[j].key = key IN items[i].value

----------------------------------------------------------------------------
(* The base document: the JSON the external converter writes.              *)
(* A path item is a function from its keys ("get", "post", "patch",        *)
(* "delete", "parameters") to their values.  An operation keeps the $ref   *)
(* of its 200 response schema, the $ref of its request body schema and the *)
(* $refs found anywhere else in its body.  A schema is its set of property *)
(* names.                                                                  *)

Operation(response, request, others) ==
    [response200Ref |-> response, requestBodyRef |-> request, otherRefs |-> others]

SchemaRef(schema_name) == SchemaRefPrefix \o schema_name

SchemaItem == NavNamespace \o ItemTypeName
SchemaItemCat == NavNamespace \o ItemCatTypeName

\* an inline parameter of a path item (no $ref)
KeyParameter == [ref |-> <<>>]
\* {'$ref': '#/components/parameters/company'}
CompanyParameter == [ref |-> CompanyParamRef]

KeySegment == <<"(","{","i","d","}",")">>

PathCompanies == CompaniesPrefix
PathEntityDefinitions == EntityDefinitionsPrefix
PathItems == CompanyScopePrefix \o ItemsName
PathItem == CompanyScopePrefix \o ItemsName \o KeySegment
PathItemCats == CompanyScopePrefix \o ItemCatsName
PathStock == CompanyScopePrefix \o StockName \o KeySegment
PathItemNav == PathItem \o <<"/">> \o ItemCatTypeName
PathItemNavDeep == PathItemNav \o <<"/">> \o ItemsName
PathRootItems == <<"/">> \o ItemsName
\* a navigation path below a root-level entity
PathRootItemNav == PathRootItems \o KeySegment \o <<"/">> \o ItemCatTypeName
\* a navigation path below a company key written {company_id}
AltScopePrefix == <<"/","c","o","m","p","a","n","i","e","s","(","{","c","o","m","p","a","n","y","_","i","d","}",")","/">>
PathAltKeyNav == AltScopePrefix \o ItemsName \o KeySegment \o <<"/">> \o ItemCatTypeName
\* a keyed system endpoint with further segments
PathSubscriptionNav ==
    SubscriptionsPrefix \o KeySegment \o <<"/">> \o ItemsName \o <<"/">> \o ItemsName

\* a collection that is no declared entity set and creates entities of type Item
PathStockList == CompanyScopePrefix \o StockName

PathUniverse ==
    { PathCompanies, PathEntityDefinitions, PathItems, PathItem, PathItemCats,
      PathStock, PathItemNav, PathItemNavDeep, PathRootItems, PathRootItemNav,
      PathAltKeyNav, PathSubscriptionNav, PathStockList }

\* the path item the converter writes for each path of the model
PathItemOf(path) ==
    CASE path = PathItems ->
            [get |-> Operation(<<>>, <<>>, {SchemaRef(SchemaItem)}),
             post |-> Operation(<<>>, SchemaRef(SchemaItem \o CreateSuffix),
                                {SchemaRef(SchemaItem)})]
      [] path = PathRootItems ->
            [get |-> Operation(<<>>, <<>>, {SchemaRef(SchemaItem)}),
             post |-> Operation(<<>>, SchemaRef(SchemaItem \o CreateSuffix),
                                {SchemaRef(SchemaItem)})]
      [] path = PathItem ->
            [get |-> Operation(SchemaRef(SchemaItem), <<>>, {}),
             patch |-> Operation(SchemaRef(SchemaItem),
                                 SchemaRef(SchemaItem \o UpdateSuffix), {}),
             delete |-> Operation(<<>>, <<>>, {}),
             parameters |-> <<KeyParameter>>]
      [] path = PathItemCats ->
            [get |-> Operation(<<>>, <<>>, {SchemaRef(SchemaItemCat)}),
             post |-> Operation(<<>>, SchemaRef(SchemaItemCat \o CreateSuffix),
                                {SchemaRef(SchemaItemCat)})]
      [] path = PathStock ->
            [get |-> Operation(<<>>, <<>>, {}),
             patch |-> Operation(<<>>, SchemaRef(SchemaItem \o UpdateSuffix), {}),
             delete |-> Operation(<<>>, <<>>, {}),
             parameters |-> <<KeyParameter>>]
      [] path = PathStockList ->
            [get |-> Operation(<<>>, <<>>, {}),
             post |-> Operation(<<>>, SchemaRef(SchemaItem \o CreateSuffix), {})]
      [] path = PathItemNav ->
            [get |-> Operation(SchemaRef(SchemaItemCat), <<>>, {}),
             parameters |-> <<KeyParameter>>]
      [] OTHER ->
            [get |-> Operation(<<>>, <<>>, {})]

BaseSchemas ==
    LET read == {"id", "displayName", "systemCreatedAt", "systemModifiedAt"}
        create == {"displayName", "systemCreatedAt", "systemCreatedBy"}
        update == {"displayName", "systemModifiedAt", "systemModifiedBy"}
        names == { SchemaItem, SchemaItem \o CreateSuffix, SchemaItem \o UpdateSuffix,
                   SchemaItemCat, SchemaItemCat \o CreateSuffix,
                   SchemaItemCat \o UpdateSuffix }
    IN  [n \in names |->
            IF EndsWith(n, CreateSuffix) THEN create
            ELSE IF EndsWith(n, UpdateSuffix) THEN update ELSE read]

\* the document: 'paths' (when present), 'components' (when present),
\* components.schemas (when present) and the names under components.parameters
Document(hasPaths, paths, hasComponents, hasSchemas, schemas, parameters) ==
    [hasPaths |-> hasPaths, paths |-> paths, hasComponents |-> hasComponents,
     hasSchemas |-> hasSchemas,
     schemas |-> schemas, parameters |-> parameters]

NoDocument == Document(FALSE, <<>>, FALSE, FALSE, <<>>, {})

\* a root-level collection whose operations refer to no schema
PathRootStock == <<"/">> \o StockName

\* documents without 'paths', without 'components' or without
\* components.schemas; their operations refer to no schema
StructureLackingDocuments ==
    { Document(FALSE, <<>>, TRUE, TRUE, BaseSchemas, {}),
      Document(FALSE, <<>>, FALSE, FALSE, <<>>, {}) }
    \cup { Document(TRUE, [p \in P |-> PathItemOf(p)], hasComponents, FALSE, <<>>, {}) :
             P \in { {}, {PathRootStock}, {PathRootItemNav} },
             hasComponents \in BOOLEAN }

BaseDocuments ==
    { Document(TRUE, [p \in P |-> PathItemOf(p)], TRUE, TRUE, BaseSchemas, {}) :
        P \in { Q \in SUBSET PathUniverse : Cardinality(Q) <= MaxPaths } }
    \cup StructureLackingDocuments

----------------------------------------------------------------------------
(* Parameter injection, _add_company_parameter *)

\* the length of '/companies({id})/', the slice of _remove_navigation_paths
ScopePrefixLength == 17

\* a variant: exempt only when the path equals a prefix
IsCompanyExempt_ExactMatch(path_name) == path_name \in CompanyExemptPrefixes

\* any(path_name.startswith(prefix) for prefix in [...])
IsCompanyExempt(path_name) ==
    \E prefix \in CompanyExemptPrefixes : StartsWith(path_name, prefix)

\* values['parameters'].append({'$ref': ...}), the list created when missing
\* a variant: a missing 'components' would be left missing
ensure_components_Skip(doc) == doc

\* if 'components' not in spec: spec['components'] = {}
ensure_components(doc) == [doc EXCEPT !.hasComponents = TRUE]

AppendCompanyParameter(values) ==
    LET parameters == IF "parameters" \in DOMAIN values THEN values.parameters
                      ELSE <<>>
    IN  [k \in DOMAIN values \cup {"parameters"} |->
            IF k = "parameters" THEN Append(parameters, CompanyParameter)
            ELSE values[k]]

add_company_parameter(doc) ==
    [doc EXCEPT
        !.parameters = @ \cup {"company"},
        !.paths = IF doc.hasPaths
                  THEN [p \in DOMAIN @ |->
                          IF ~IsCompanyExempt(p) THEN AppendCompanyParameter(@[p])
                          ELSE @[p]]
                  ELSE @]

----------------------------------------------------------------------------
(* Path pruning, _remove_navigation_paths *)

\* a variant: only the exact names would be system endpoints
IsSystemEndpoint_ExactOnly(path_name) ==
    \/ path_name \in system_prefixes
    \/ path_name = CompaniesPrefix
    \/ path_name = CompaniesKeyed

\* a system prefix itself or followed by '(', or one of the two companies paths
IsSystemEndpoint(path_name) ==
    \/ \E prefix \in system_prefixes :
          path_name = prefix \/ StartsWith(path_name, prefix \o <<"(">>)
    \/ path_name = CompaniesPrefix
    \/ path_name = CompaniesKeyed

\* level.startswith('(') and level.endswith(')')
LooksLikeKey(level) == StartsWith(level, <<"(">>) /\ EndsWith(level, <<")">>)

\* a variant: only paths of more than three levels would be removed
LevelsAreNavigation_Deeper(levels) ==
    \/ Len(levels) > 3
    \/ Len(levels) = 2 /\ ~LooksLikeKey(levels[2])

\* a variant: the key test would also apply to a path of one level
LevelsAreNavigation_LastLevel(levels) ==
    \/ Len(levels) > 2
    \/ Len(levels) >= 1 /\ ~LooksLikeKey(levels[Len(levels)])

\* more than two levels, or two levels the second of which is not a key
LevelsAreNavigation(levels) ==
    \/ Len(levels) > 2
    \/ Len(levels) = 2 /\ ~LooksLikeKey(levels[2])

\* whether the loop puts path_name in paths_to_remove
IsNavigationPath(path_name) ==
    IF IsSystemEndpoint(path_name) THEN FALSE
    ELSE IF StartsWith(path_name, CompanyScopePrefix)
    THEN LevelsAreNavigation(
            NonEmpty(Split(DropFirst(path_name, ScopePrefixLength), "/")))
    ELSE IF ~StartsWith(path_name, CompaniesPrefix)
    THEN LevelsAreNavigation(Split(Strip(path_name, "/"), "/"))
    ELSE FALSE

remove_navigation_paths(doc) ==
    IF ~doc.hasPaths THEN doc
    ELSE [doc EXCEPT
            !.paths = [p \in { q \in DOMAIN @ : ~IsNavigationPath(q) } |-> @[p]]]

----------------------------------------------------------------------------
(* Field scrubber, _remove_system_fields_from_mutation_schemas *)

\* a variant: only the -create schemas would be scrubbed
IsMutationSchema_CreateOnly(schema_name) == EndsWith(schema_name, CreateSuffix)

\* schema_name.endswith('-create') or schema_name.endswith('-update')
IsMutationSchema(schema_name) ==
    EndsWith(schema_name, CreateSuffix) \/ EndsWith(schema_name, UpdateSuffix)

remove_system_fields_from_mutation_schemas(doc) ==
    IF ~doc.hasSchemas THEN doc
    ELSE [doc EXCEPT
            !.schemas = [n \in DOMAIN @ |->
                            IF IsMutationSchema(n) THEN @[n] \ system_fields
                            ELSE @[n]]]

----------------------------------------------------------------------------
(* Capability enforcement, _enforce_edmx_capabilities.                     *)
(* A looked-up record is a list of at most one record: <<>> is None.       *)

\* entity_part.split('(')[0] if '(' in entity_part else entity_part
WithoutKey(segment) ==
    IF HasChar(segment, "(") THEN BeforeFirst(segment, "(") ELSE segment

extract_entity_set_from_path(path) ==
    LET path_clean == LStrip(path, "/")
        parts == Split(path_clean, "/")
    IN  IF StartsWith(path_clean, CompaniesParen)
        THEN IF Len(parts) >= 2 THEN WithoutKey(parts[2]) ELSE <<>>
        ELSE WithoutKey(parts[1])

schema_ref_to_entity_type(schema_ref) ==
    IF ~StartsWith(schema_ref, SchemaRefPrefix) THEN <<>>
    ELSE LET schema_name == RemoveAll(schema_ref, SchemaRefPrefix)
             entity_type == RemoveAll(schema_name, NavNamespace)
         IN  IF StartsWith(schema_name, NavNamespace)
             THEN IF IsMutationSchema(entity_type)
                  THEN BeforeLast(entity_type, "-") ELSE entity_type
             ELSE <<>>

\* the type named by the get response schema, else by the patch request body
extract_entity_type_from_path_methods(path_obj) ==
    LET from_get ==
            IF "get" \in DOMAIN path_obj /\ path_obj.get.response200Ref # <<>>
            THEN schema_ref_to_entity_type(path_obj.get.response200Ref) ELSE <<>>
        from_patch ==
            IF "patch" \in DOMAIN path_obj /\ path_obj.patch.requestBodyRef # <<>>
            THEN schema_ref_to_entity_type(path_obj.patch.requestBodyRef) ELSE <<>>
    IN  IF from_get # <<>> THEN from_get ELSE from_patch

\* the last segment of the path without its key
LastSegmentName(path) ==
    LET path_segments == Split(RStrip(path, "/"), "/")
    IN  WithoutKey(path_segments[Len(path_segments)])

\* a variant: the schema references of the operations would not be consulted
LookupCapabilities_NoSchemaStep(path, path_obj, set_caps, type_caps) ==
    LET entity_set_name == extract_entity_set_from_path(path)
        last_segment == LastSegmentName(path)
    IN  IF entity_set_name # <<>> /\ entity_set_name \in DOMAIN set_caps
        THEN <<set_caps[entity_set_name]>>
        ELSE IF last_segment \in OrderedKeys(type_caps)
        THEN <<OrderedGet(type_caps, last_segment)>>
        ELSE <<>>

\* the record found by entity-set name, else by schema reference, else by the
\* last path segment
LookupCapabilities(path, path_obj, set_caps, type_caps) ==
    LET entity_set_name == extract_entity_set_from_path(path)
        entity_type_name == extract_entity_type_from_path_methods(path_obj)
        last_segment == LastSegmentName(path)
    IN  IF entity_set_name # <<>> /\ entity_set_name \in DOMAIN set_caps
        THEN <<set_caps[entity_set_name]>>
        ELSE IF entity_type_name # <<>> /\ entity_type_name \in OrderedKeys(type_caps)
        THEN <<OrderedGet(type_caps, entity_type_name)>>
        ELSE IF last_segment \in OrderedKeys(type_caps)
        THEN <<OrderedGet(type_caps, last_segment)>>
        ELSE <<>>

\* f'/{entity_type_name}' in path and not all(entity_capabilities.values())
Overrides(item, path) ==
    Contains(path, <<"/">> \o item.key) /\ ~AllAllowed(item.value)

\* the override loop: the first restricted type, in the dict's order, whose
\* name follows a '/' in the path replaces what the lookup found
OverrideCapabilities(path, type_caps, found) ==
    LET hits == { i \in 1..Len(type_caps) : Overrides(type_caps[i], path) }
    IN  IF hits = {} THEN found
        ELSE <<type_caps[CHOOSE i \in hits : \A j \in hits : i <= j].value>>

\* the record the removals of one path go by
GoverningCapabilities(path, path_obj, set_caps, type_caps) ==
    OverrideCapabilities(path, type_caps,
                         LookupCapabilities(path, path_obj, set_caps, type_caps))

\* a variant: an elif chain, removing at most one operation per pass
RemoveDisallowed_FirstOnly(path_obj, caps) ==
    LET gone == IF ~caps.insertable /\ "post" \in DOMAIN path_obj THEN {"post"}
                ELSE IF ~caps.updatable /\ "patch" \in DOMAIN path_obj THEN {"patch"}
                ELSE IF ~caps.deletable /\ "delete" \in DOMAIN path_obj THEN {"delete"}
                ELSE {}
    IN  [k \in DOMAIN path_obj \ gone |-> path_obj[k]]

\* a variant: deletable false would remove patch instead of delete
RemoveDisallowed_WrongVerb(path_obj, caps) ==
    LET gone == (IF ~caps.insertable THEN {"post"} ELSE {})
                \cup (IF ~caps.updatable THEN {"patch"} ELSE {})
                \cup (IF ~caps.deletable THEN {"patch"} ELSE {})
    IN  [k \in DOMAIN path_obj \ gone |-> path_obj[k]]

\* the three del statements
RemoveDisallowed(path_obj, caps) ==
    LET gone == (IF ~caps.insertable THEN {"post"} ELSE {})
                \cup (IF ~caps.updatable THEN {"patch"} ELSE {})
                \cup (IF ~caps.deletable THEN {"delete"} ELSE {})
    IN  [k \in DOMAIN path_obj \ gone |-> path_obj[k]]

enforce_edmx_capabilities(doc, set_caps, type_caps) ==
    IF ~doc.hasPaths \/ DOMAIN set_caps = {} THEN doc
    ELSE [doc EXCEPT
            !.paths = [p \in DOMAIN @ |->
                LET capabilities == GoverningCapabilities(p, @[p], set_caps, type_caps)
                IN  IF capabilities # <<>> THEN RemoveDisallowed(@[p], capabilities[1])
                    ELSE @[p]]]

----------------------------------------------------------------------------
(* Schema pruning, _remove_unused_schema_variants *)

\* every $ref into the schema namespace found in an operation
extract_schema_refs(operation) ==
    { RemoveAll(r, SchemaRefPrefix) :
        r \in { x \in {operation.response200Ref, operation.requestBodyRef}
                        \cup operation.otherRefs : StartsWith(x, SchemaRefPrefix) } }

\* schemas_used_by_post, schemas_used_by_patch
schemas_used_by(paths, method) ==
    UNION { extract_schema_refs(paths[p][method]) :
              p \in { q \in DOMAIN paths : method \in DOMAIN paths[q] } }

\* schema.replace(suffix, '') with a leading 'Microsoft.NAV.' cut off
BaseName(schema, suffix) ==
    LET base_name == RemoveAll(schema, suffix)
    IN  IF StartsWith(base_name, NavNamespace)
        THEN DropFirst(base_name, Len(NavNamespace)) ELSE base_name

capability_based_removals(schema_names, type_caps) ==
    { n \in schema_names :
        /\ EndsWith(n, CreateSuffix)
        /\ BaseName(n, CreateSuffix) \in OrderedKeys(type_caps)
        /\ ~OrderedGet(type_caps, BaseName(n, CreateSuffix)).insertable }
    \cup
    { n \in schema_names :
        /\ EndsWith(n, UpdateSuffix)
        /\ BaseName(n, UpdateSuffix) \in OrderedKeys(type_caps)
        /\ ~OrderedGet(type_caps, BaseName(n, UpdateSuffix)).updatable }

\* schema_name[len('Microsoft.NAV.'):-len(suffix)]
ForcedTypeName(schema_name, suffix) ==
    SubSeq(schema_name, Len(NavNamespace) + 1, Len(schema_name) - Len(suffix))

force_remove_schemas(schema_names, type_caps) ==
    { n \in schema_names :
        /\ StartsWith(n, NavNamespace)
        /\ \/ /\ EndsWith(n, CreateSuffix)
              /\ ForcedTypeName(n, CreateSuffix) \in OrderedKeys(type_caps)
              /\ ~OrderedGet(type_caps, ForcedTypeName(n, CreateSuffix)).insertable
           \/ /\ ~EndsWith(n, CreateSuffix)
              /\ EndsWith(n, UpdateSuffix)
              /\ ForcedTypeName(n, UpdateSuffix) \in OrderedKeys(type_caps)
              /\ ~OrderedGet(type_caps, ForcedTypeName(n, UpdateSuffix)).updatable }

\* unused_create_schemas and unused_update_schemas together
unused_schemas(doc) ==
    { n \in DOMAIN doc.schemas :
        \/ EndsWith(n, CreateSuffix) /\ n \notin schemas_used_by(doc.paths, "post")
        \/ EndsWith(n, UpdateSuffix) /\ n \notin schemas_used_by(doc.paths, "patch") }

\* a variant: only the unreferenced schemas would be removed
all_schemas_to_remove_UnusedOnly(doc, type_caps) == unused_schemas(doc)

all_schemas_to_remove(doc, type_caps) ==
    unused_schemas(doc)
    \cup capability_based_removals(DOMAIN doc.schemas, type_caps)
    \cup force_remove_schemas(DOMAIN doc.schemas, type_caps)

remove_unused_schema_variants(doc, type_caps) ==
    IF ~doc.hasPaths \/ ~doc.hasSchemas THEN doc
    ELSE [doc EXCEPT
            !.schemas = [n \in DOMAIN @ \ all_schemas_to_remove(doc, type_caps) |->
                            @[n]]]

----------------------------------------------------------------------------
(* The converter as a state machine *)

VARIABLES
    edmx_capabilities,        \* self.edmx_capabilities: entity-set name -> record
    entity_type_capabilities, \* self.entity_type_capabilities, in dict order
    entity_set_to_type,       \* the extractor's entity_set_to_type of this run
    openapi_spec,             \* the document being enhanced
    pc,                       \* where convert() stands
    nsets,                    \* EntitySet elements read from this run's metadata
    pass,                     \* the number of this application of the enhancement
    run,                      \* the number of this conversion on the instance
    parse_failed,             \* ET.parse raised in this run
    unannotated,              \* the entity sets read so far without a restriction annotation
    base_paths,               \* the paths of the base document of this run
    pre_enforce,              \* 'paths' as capability enforcement found it
    prev_shape,               \* the shape of the document after the previous pass
    stage_input,              \* the document as the latest stage found it
    last_set,                 \* <<the EntitySet element the loop read last>>
    exit_status,              \* <<>> while the process runs, <<n>> after sys.exit(n)
    stderr_reported,          \* the converter's captured stderr was printed
    output_written            \* json.dump wrote output_file in this run

vars == <<edmx_capabilities, entity_type_capabilities, entity_set_to_type,
          openapi_spec, pc, nsets, pass, run, parse_failed, unannotated,
          base_paths, pre_enforce, prev_shape, stage_input, last_set,
          exit_status, stderr_reported, output_written>>

\* what the process shows of itself: exit status, diagnostics, output file
io == <<exit_status, stderr_reported, output_written>>

\* what 'no additional removals' compares: the paths, the operations of each
\* path, the schemas and the properties of each schema
Shape(doc) ==
    [paths |-> [p \in DOMAIN doc.paths |-> DOMAIN doc.paths[p] \ {"parameters"}],
     schemas |-> doc.schemas]

\* an annotation whose term names one of the three restrictions
IsRestrictionAnnotation(ann) ==
    \/ Contains(ann.Term, InsertRestrictions)
    \/ Contains(ann.Term, UpdateRestrictions)
    \/ Contains(ann.Term, DeleteRestrictions)

HasRestrictionAnnotation(entity_set) ==
    \E i \in 1..Len(entity_set.Annotations) :
        IsRestrictionAnnotation(entity_set.Annotations[i])

\* __init__, and convert() entered for the first time
Init ==
    /\ edmx_capabilities = <<>>
    /\ entity_type_capabilities = <<>>
    /\ entity_set_to_type = <<>>
    /\ openapi_spec = NoDocument
    /\ pc = "parse"
    /\ nsets = 0
    /\ pass = 1
    /\ run = 1
    /\ parse_failed = FALSE
    /\ unannotated = {}
    /\ base_paths = {}
    /\ pre_enforce = <<>>
    /\ prev_shape = Shape(NoDocument)
    /\ stage_input = NoDocument
    /\ last_set = <<>>
    /\ exit_status = <<>>
    /\ stderr_reported = FALSE
    /\ output_written = FALSE

\* ET.parse raises: the except clause prints a warning and changes nothing
ParseFails ==
    /\ pc = "parse"
    /\ nsets = 0
    /\ parse_failed' = TRUE
    /\ pc' = "convert"
    /\ UNCHANGED <<edmx_capabilities, entity_type_capabilities, entity_set_to_type,
                   openapi_spec, nsets, pass, run, unannotated, base_paths,
                   pre_enforce, prev_shape, stage_input, last_set, io>>

\* one iteration of the loop over the EntitySet elements; entity-set names
\* are unique within a metadata document
ParseEntitySet ==
    \E entity_set \in EntitySetChoices :
        /\ pc = "parse"
        /\ nsets < MaxSets
        /\ entity_set.Name \notin DOMAIN entity_set_to_type
        /\ nsets' = nsets + 1
        /\ last_set' = <<entity_set>>
        /\ IF entity_set.Name = <<>> \/ entity_set.EntityType = <<>>
           THEN UNCHANGED <<edmx_capabilities, entity_type_capabilities,
                            entity_set_to_type, unannotated>>
           ELSE LET entity_type_name == EntityTypeName(entity_set.EntityType)
                    capabilities == ExtractCapabilities(entity_set)
                IN  /\ entity_set_to_type' =
                          DictSet(entity_set_to_type, entity_set.Name, entity_type_name)
                    /\ edmx_capabilities' =
                          DictSet(edmx_capabilities, entity_set.Name, capabilities)
                    /\ entity_type_capabilities' =
                          OrderedSet(entity_type_capabilities, entity_type_name,
                                     capabilities)
                    /\ unannotated' =
                          IF HasRestrictionAnnotation(entity_set) THEN unannotated
                          ELSE unannotated \cup {entity_set.Name}
        /\ UNCHANGED <<openapi_spec, pc, pass, run, parse_failed, base_paths,
                       pre_enforce, prev_shape, stage_input, io>>

\* the loop is over
ParseDone ==
    /\ pc = "parse"
    /\ pc' = "convert"
    /\ nsets' = 0
    /\ last_set' = <<>>
    /\ UNCHANGED <<edmx_capabilities, entity_type_capabilities, entity_set_to_type,
                   openapi_spec, pass, run, parse_failed, unannotated,
                   base_paths, pre_enforce, prev_shape, stage_input, io>>

\* the external converter succeeds and its output is loaded
RunConverter ==
    \E doc \in BaseDocuments :
        /\ pc = "convert"
        /\ openapi_spec' = doc
        /\ base_paths' = DOMAIN doc.paths
        /\ pc' = "enhance"
        /\ unannotated' = {}
        /\ UNCHANGED <<edmx_capabilities, entity_type_capabilities,
                       entity_set_to_type, nsets, pass, run, parse_failed,
                       pre_enforce, prev_shape, stage_input, last_set, io>>

\* a variant: the error would be printed and the run would go on to write
\* the document it holds
ConverterFails_GoesOn ==
    /\ pc = "convert"
    /\ pc' = "failed"
    /\ stderr_reported' = TRUE
    /\ output_written' = TRUE
    /\ UNCHANGED <<edmx_capabilities, entity_type_capabilities, entity_set_to_type,
                   openapi_spec, nsets, pass, run, parse_failed, unannotated,
                   base_paths, pre_enforce, prev_shape, stage_input, last_set,
                   exit_status>>

\* the external converter exits non-zero: subprocess.run raises
\* CalledProcessError, the handler prints the error and e.stderr and calls
\* sys.exit(1); SystemExit passes main's `except Exception`
ConverterFails ==
    /\ pc = "convert"
    /\ pc' = "failed"
    /\ stderr_reported' = TRUE
    /\ exit_status' = <<1>>
    /\ UNCHANGED <<edmx_capabilities, entity_type_capabilities, entity_set_to_type,
                   openapi_spec, nsets, pass, run, parse_failed, unannotated,
                   base_paths, pre_enforce, prev_shape, stage_input, last_set,
                   output_written>>

\* a stage of _enhance_openapi_spec that only rewrites the document
Stage(from, to, result) ==
    /\ pc = from
    /\ openapi_spec' = result
    /\ stage_input' = openapi_spec
    /\ pc' = to
    /\ UNCHANGED <<last_set, io>>

\* the head of _enhance_openapi_spec and _add_company_parameter.  The
\* stage indexes spec['components']: were the key missing, the KeyError
\* would reach main, which prints it and calls sys.exit(1)
AddCompanyParameter ==
    LET spec == ensure_components(openapi_spec)
    IN  /\ pc = "enhance"
        /\ IF spec.hasComponents
           THEN Stage("enhance", "nav", add_company_parameter(spec))
           ELSE /\ pc' = "failed"
                /\ exit_status' = <<1>>
                /\ UNCHANGED <<openapi_spec, stage_input, last_set,
                               stderr_reported, output_written>>
        /\ UNCHANGED <<edmx_capabilities, entity_type_capabilities,
                       entity_set_to_type, nsets, pass, run, parse_failed,
                       unannotated, base_paths, pre_enforce, prev_shape>>

RemoveNavigationPaths ==
    /\ Stage("nav", "scrub", remove_navigation_paths(openapi_spec))
    /\ UNCHANGED <<edmx_capabilities, entity_type_capabilities, entity_set_to_type,
                   nsets, pass, run, parse_failed, unannotated, base_paths,
                   pre_enforce, prev_shape>>

RemoveSystemFields ==
    /\ Stage("scrub", "enforce",
             remove_system_fields_from_mutation_schemas(openapi_spec))
    /\ UNCHANGED <<edmx_capabilities, entity_type_capabilities, entity_set_to_type,
                   nsets, pass, run, parse_failed, unannotated, base_paths,
                   pre_enforce, prev_shape>>

EnforceCapabilities ==
    /\ Stage("enforce", "prune",
             enforce_edmx_capabilities(openapi_spec, edmx_capabilities,
                                       entity_type_capabilities))
    /\ pre_enforce' = openapi_spec.paths
    /\ UNCHANGED <<edmx_capabilities, entity_type_capabilities, entity_set_to_type,
                   nsets, pass, run, parse_failed, unannotated, base_paths,
                   prev_shape>>

RemoveUnusedSchemaVariants ==
    /\ Stage("prune", "done",
             remove_unused_schema_variants(openapi_spec, entity_type_capabilities))
    /\ UNCHANGED <<edmx_capabilities, entity_type_capabilities, entity_set_to_type,
                   nsets, pass, run, parse_failed, unannotated, base_paths,
                   pre_enforce, prev_shape>>

\* _enhance_openapi_spec applied once more to the enhanced document, with
\* the same capability mappings
EnhanceAgain ==
    /\ pc = "done"
    /\ pass < MaxPasses
    /\ pass' = pass + 1
    /\ prev_shape' = Shape(openapi_spec)
    /\ pc' = "enhance"
    /\ UNCHANGED <<edmx_capabilities, entity_type_capabilities, entity_set_to_type,
                   openapi_spec, nsets, run, parse_failed, unannotated, base_paths,
                   pre_enforce, stage_input, last_set, io>>

\* convert() called again on the same instance: nothing resets the two
\* capability mappings
ConvertAgain ==
    /\ pc = "written"
    /\ run < MaxRuns
    /\ run' = run + 1
    /\ pc' = "parse"
    /\ nsets' = 0
    /\ pass' = 1
    /\ parse_failed' = FALSE
    /\ entity_set_to_type' = <<>>
    /\ unannotated' = {}
    /\ openapi_spec' = NoDocument
    /\ base_paths' = {}
    /\ pre_enforce' = <<>>
    /\ prev_shape' = Shape(NoDocument)
    /\ stage_input' = NoDocument
    /\ last_set' = <<>>
    /\ output_written' = FALSE
    /\ UNCHANGED <<edmx_capabilities, entity_type_capabilities, exit_status,
                   stderr_reported>>

\* step 4 of convert(): the enhanced document is written to output_file
WriteOutput ==
    /\ pc = "done"
    /\ pc' = "written"
    /\ output_written' = TRUE
    /\ UNCHANGED <<edmx_capabilities, entity_type_capabilities, entity_set_to_type,
                   openapi_spec, nsets, pass, run, parse_failed, unannotated,
                   base_paths, pre_enforce, prev_shape, stage_input, last_set,
                   exit_status,                   stderr_reported>>

\* one call of convert()
Conversion ==
    \/ ParseFails
    \/ ParseEntitySet
    \/ ParseDone
    \/ RunConverter
    \/ ConverterFails
    \/ AddCompanyParameter
    \/ RemoveNavigationPaths
    \/ RemoveSystemFields
    \/ EnforceCapabilities
    \/ RemoveUnusedSchemaVariants
    \/ WriteOutput

Next == Conversion \/ EnhanceAgain

\* one converter per process, as main() uses it
Spec == Init /\ [][Next]_vars

NextReuse == Conversion \/ ConvertAgain

\* one converter instance used for several conversions
SpecReuse == Init /\ [][NextReuse]_vars

----------------------------------------------------------------------------
(* Properties *)

\* the by-reference company entries among a path item's parameters
CompanyRefCount(values) ==
    IF "parameters" \in DOMAIN values
    THEN Cardinality({ i \in 1..Len(values.parameters) :
                         values.parameters[i].ref = CompanyParamRef })
    ELSE 0

\* the path starts with one of the eight prefixes listed in _add_company_parameter
HasExemptPrefix(path) ==
    \E i \in 1..Len(path) : SubSeq(path, 1, i) \in CompanyExemptPrefixes

\* the output document is complete
Enhanced == pc = "done"

(* C1, as stated: after the enhancement every surviving path that is not a *)
(* tenant-level system endpoint (an allow-listed name, bare or keyed, or   *)
(* /companies or /companies({id})) carries a reference to the shared       *)
(* company parameter, a company-scoped entity path included.               *)
C1_EveryNonSystemPathHasCompanyRef ==
    Enhanced =>
        \A p \in DOMAIN openapi_spec.paths :
            ~IsSystemEndpoint(p) => CompanyRefCount(openapi_spec.paths[p]) >= 1

(* C1, amended: after the enhancement every surviving path that starts     *)
(* with none of the eight exempt prefixes carries a reference to the       *)
(* shared company parameter, and a path that starts with /companies, a     *)
(* company-scoped entity path included, carries none.                      *)
C1_NonExemptPathsHaveCompanyRef ==
    Enhanced =>
        \A p \in DOMAIN openapi_spec.paths :
            /\ ~HasExemptPrefix(p) => CompanyRefCount(openapi_spec.paths[p]) >= 1
            /\ StartsWith(p, CompaniesPrefix) =>
                  CompanyRefCount(openapi_spec.paths[p]) = 0

C1_Witness ==
    /\ Enhanced
    /\ PathRootItems \in DOMAIN openapi_spec.paths
    /\ CompanyRefCount(openapi_spec.paths[PathRootItems]) >= 1

(* C2: every surviving path that parameter injection covers holds exactly  *)
(* one reference to the shared company parameter, also after the           *)
(* enhancement has been applied again to the enhanced document.            *)
C2_ExactlyOneCompanyRef ==
    Enhanced =>
        \A p \in DOMAIN openapi_spec.paths :
            ~HasExemptPrefix(p) => CompanyRefCount(openapi_spec.paths[p]) = 1

(* C3: for every entity set the metadata declares with Insertable=false,   *)
(* after the enhancement no surviving path whose first scoped segment is   *)
(* that entity set has a post operation, and the -create schema of its     *)
(* entity type is not in components.schemas.                               *)
C3_NotInsertableHasNoPost ==
    Enhanced =>
        \A s \in DOMAIN entity_set_to_type :
            ~edmx_capabilities[s].insertable =>
                /\ \A p \in DOMAIN openapi_spec.paths :
                      extract_entity_set_from_path(p) = s =>
                          "post" \notin DOMAIN openapi_spec.paths[p]
                /\ (NavNamespace \o entity_set_to_type[s] \o CreateSuffix)
                      \notin DOMAIN openapi_spec.schemas

\* the two mappings as capability enforcement uses them: it returns at once
\* when there are no entity-set records
AppliedCapabilities(path, path_obj) ==
    IF DOMAIN edmx_capabilities = {} THEN <<>>
    ELSE GoverningCapabilities(path, path_obj, edmx_capabilities,
                               entity_type_capabilities)

\* the record forbids the operation under key k
Disallows(applied, k) ==
    /\ applied # <<>>
    /\ \/ k = "post" /\ ~applied[1].insertable
       \/ k = "patch" /\ ~applied[1].updatable
       \/ k = "delete" /\ ~applied[1].deletable

\* the metadata declares exactly Items, with only Deletable=false, and the
\* document has /companies({id})/Items({id}) with get, patch and delete
ItemsScenario ==
    /\ DOMAIN edmx_capabilities = {ItemsName}
    /\ edmx_capabilities[ItemsName] =
          [insertable |-> TRUE, updatable |-> TRUE, deletable |-> FALSE]
    /\ PathItem \in DOMAIN pre_enforce
    /\ {"get", "patch", "delete"} \subseteq DOMAIN pre_enforce[PathItem]

(* C4: capability enforcement deletes no path; from each path item it      *)
(* removes exactly the operations the applied record disallows and leaves  *)
(* every other key with its value.  In the Items scenario delete is gone   *)
(* and get and patch are kept.                                             *)
C4_EnforcementRemovesExactlyDisallowed ==
    pc = "prune" =>
        /\ DOMAIN openapi_spec.paths = DOMAIN pre_enforce
        /\ \A p \in DOMAIN pre_enforce :
              LET before == pre_enforce[p]
                  after == openapi_spec.paths[p]
                  applied == AppliedCapabilities(p, before)
              IN  /\ DOMAIN after \subseteq DOMAIN before
                  /\ \A k \in DOMAIN before :
                        k \in DOMAIN after <=> ~Disallows(applied, k)
                  /\ \A k \in DOMAIN after : after[k] = before[k]
        /\ ItemsScenario =>
              DOMAIN openapi_spec.paths[PathItem] \ {"parameters"} = {"get", "patch"}

C4_Witness ==
    /\ pc = "prune"
    /\ ItemsScenario
    /\ "delete" \notin DOMAIN openapi_spec.paths[PathItem]

\* a segment without a key
IsBareName(segment) == ~HasChar(segment, "(") /\ ~HasChar(segment, ")")

\* the segments of a company-scoped path after the scope prefix
ScopedSegments(path) ==
    NonEmpty(Split(DropFirst(path, Len(CompanyScopePrefix)), "/"))

\* /companies({id})/X/Y...: two or more scoped segments the second of which
\* is a bare name, or three or more
IsNavigationTraversal(path) ==
    /\ StartsWith(path, CompanyScopePrefix)
    /\ \/ Len(ScopedSegments(path)) >= 3
       \/ Len(ScopedSegments(path)) = 2 /\ IsBareName(ScopedSegments(path)[2])

(* C5: no navigation traversal /companies({id})/X/Y... is a path of the    *)
(* output document.                                                        *)
C5_NoNavigationTraversalSurvives ==
    Enhanced => \A p \in DOMAIN openapi_spec.paths : ~IsNavigationTraversal(p)

C5_Witness ==
    /\ Enhanced
    /\ \E p \in base_paths : Len(ScopedSegments(p)) >= 3
    /\ \A p \in base_paths : p \notin DOMAIN openapi_spec.paths

\* /companies({id})/X or /companies({id})/X(...): one scoped segment, a
\* name with or without a key
IsFirstLevelAccess(path) ==
    /\ StartsWith(path, CompanyScopePrefix)
    /\ LET rest == DropFirst(path, Len(CompanyScopePrefix))
       IN  /\ rest # <<>>
           /\ ~HasChar(rest, "/")
           /\ Head(rest) # "("
           /\ HasChar(rest, "(") => rest[Len(rest)] = ")"

(* C6: every path /companies({id})/X or /companies({id})/X(...) of the     *)
(* base document is a path of the document at every later stage of the    *)
(* enhancement.                                                            *)
C6_FirstLevelPathsSurvive ==
    \A p \in base_paths : IsFirstLevelAccess(p) => p \in DOMAIN openapi_spec.paths

C6_Witness ==
    /\ Enhanced
    /\ pass > 1
    /\ PathItem \in base_paths
    /\ PathItem \in DOMAIN openapi_spec.paths

(* C7: a second application of the enhancement removes nothing: paths,     *)
(* operations per path, schemas and schema properties are those the        *)
(* previous application left.                                              *)
C7_SecondPassRemovesNothing ==
    (Enhanced /\ pass > 1) => Shape(openapi_spec) = prev_shape

C7_Witness ==
    /\ Enhanced
    /\ pass > 1
    /\ PathStock \in DOMAIN openapi_spec.paths
    /\ "patch" \notin DOMAIN openapi_spec.paths[PathStock]
    /\ "delete" \notin DOMAIN openapi_spec.paths[PathStock]

(* C8: an entity set with a Name and an EntityType and no restriction      *)
(* annotation has the record {insertable: true, updatable: true,           *)
(* deletable: true} in the entity-set mapping.                             *)
C8_UnannotatedSetsAreUnrestricted ==
    \A n \in unannotated :
        /\ n \in DOMAIN edmx_capabilities
        /\ edmx_capabilities[n] =
              [insertable |-> TRUE, updatable |-> TRUE, deletable |-> TRUE]

C8_Witness ==
    /\ pc = "convert"
    /\ ItemsName \in unannotated
    /\ ItemCatsName \in DOMAIN edmx_capabilities
    /\ ~AllAllowed(edmx_capabilities[ItemCatsName])

(* C9: when the metadata document cannot be parsed both capability         *)
(* mappings are empty and capability enforcement changes no path item.     *)
C9_ParseFailureMeansNoEnforcement ==
    parse_failed =>
        /\ DOMAIN edmx_capabilities = {}
        /\ entity_type_capabilities = <<>>
        /\ pc \in {"prune", "done"} => openapi_spec.paths = pre_enforce

(* C10: once the extractor of a conversion has run, the two mappings hold  *)
(* records of that conversion's metadata only: every entity-set key and    *)
(* every entity-type key was declared by this run's metadata.              *)
C10_OnlyThisRunsRecords ==
    pc # "parse" =>
        /\ DOMAIN edmx_capabilities \subseteq DOMAIN entity_set_to_type
        /\ OrderedKeys(entity_type_capabilities) \subseteq
              { entity_set_to_type[n] : n \in DOMAIN entity_set_to_type }

\* the slash-separated segments of a path that starts with a slash
PathSegments(path) == Split(DropFirst(path, 1), "/")

\* entityName or entityName(...)
IsEntityAccess(segment) ==
    /\ segment # <<>>
    /\ Head(segment) # "("
    /\ IF HasChar(segment, "(") THEN segment[Len(segment)] = ")"
       ELSE ~HasChar(segment, ")")

\* companies(...) with any key placeholder
IsScopeSegment(segment) ==
    StartsWith(segment, CompaniesParen) /\ segment[Len(segment)] = ")"

\* an allow-listed name, or one immediately followed by a parenthesized key
\* and then any further segments; /companies and /companies({id})
IsAllowListed(path) ==
    \/ \E name \in system_prefixes :
          \/ path = name
          \/ /\ StartsWith(path, name \o <<"(">>)
             /\ LET first == PathSegments(path)[1] IN first[Len(first)] = ")"
    \/ path \in {CompaniesPrefix, CompaniesKeyed}

\* the three shapes path pruning is to keep
IsKeptShape(path) ==
    \/ IsAllowListed(path)
    \/ Len(PathSegments(path)) = 1 /\ IsEntityAccess(PathSegments(path)[1])
    \/ /\ Len(PathSegments(path)) = 2
       /\ IsScopeSegment(PathSegments(path)[1])
       /\ IsEntityAccess(PathSegments(path)[2])

(* C11: right after path pruning the paths are exactly the paths it found  *)
(* that are system endpoints, first-level collection paths or keyed        *)
(* single-member paths, scoped or not, whatever the scope prefix's key     *)
(* placeholder.                                                            *)
C11_PrunedPathsAreExactlyKeptShapes ==
    pc = "scrub" =>
        DOMAIN openapi_spec.paths =
            { p \in DOMAIN stage_input.paths : IsKeptShape(p) }

(* C13: path pruning never removes an allow-listed system endpoint, however *)
(* many segments follow its key; /companies and /companies({id}) are kept. *)
C13_SystemEndpointsSurvivePruning ==
    pc \notin {"parse", "convert", "failed"} =>
        \A p \in base_paths : IsAllowListed(p) => p \in DOMAIN openapi_spec.paths

C13_Witness ==
    /\ pc = "scrub"
    /\ PathSubscriptionNav \in DOMAIN stage_input.paths
    /\ PathSubscriptionNav \in DOMAIN openapi_spec.paths

(* C12: when the external converter exits non-zero the process ends with   *)
(* exit status 1 after printing the captured standard error; no            *)
(* enhancement stage has run or runs and no output document is written.    *)
C12_ConverterFailureIsFatal ==
    (pc = "failed" \/ exit_status # <<>>) =>
        /\ pc = "failed"
        /\ exit_status = <<1>>
        /\ stderr_reported
        /\ ~output_written
        /\ openapi_spec = NoDocument
        /\ stage_input = NoDocument
        /\ ~ENABLED Next

C12_Witness ==
    /\ pc = "failed"
    /\ exit_status = <<1>>
    /\ ItemsName \in DOMAIN edmx_capabilities

\* the PropertyValue elements named prop inside the annotations whose term
\* contains the restriction's name
OwnPropertyValues(annotations, restriction, prop) ==
    UNION { { a.PropertyValues[j] :
                j \in { k \in 1..Len(a.PropertyValues) :
                          a.PropertyValues[k].Property = prop } } :
            a \in { annotations[i] :
                      i \in { k \in 1..Len(annotations) :
                                Contains(annotations[k].Term, restriction) } } }

\* the Bool attribute is there and reads true in any letter case
BoolSaysTrue(pv) == pv.hasBool /\ Lower(pv.Bool) = <<"t","r","u","e">>

\* the record of the entity set the loop has just read
LastRecord == edmx_capabilities[last_set[1].Name]

LastSetStored ==
    /\ pc = "parse"
    /\ last_set # <<>>
    /\ last_set[1].Name # <<>>
    /\ last_set[1].EntityType # <<>>

(* C14 as stated: each flag is decided by the property value of its own    *)
(* restriction annotation alone, is true exactly when that property        *)
(* value's Bool attribute equals 'true' in any letter case, and is true    *)
(* when there is no such property value.                                   *)
C14_FlagTrueIffBoolIsTrue ==
    LastSetStored =>
        LET anns == last_set[1].Annotations
            Flag(restriction, prop) ==
                \A pv \in OwnPropertyValues(anns, restriction, prop) : BoolSaysTrue(pv)
        IN  /\ LastRecord.insertable = Flag(InsertRestrictions, "Insertable")
            /\ LastRecord.updatable = Flag(UpdateRestrictions, "Updatable")
            /\ LastRecord.deletable = Flag(DeleteRestrictions, "Deletable")

(* C14: each flag is decided by the property value of its own restriction  *)
(* annotation alone; it is true exactly when that property value has no    *)
(* Bool attribute or a Bool attribute equal to 'true' in any letter case,  *)
(* and is true when there is no such property value.                       *)
C14_FlagTrueIffBoolAbsentOrTrue ==
    LastSetStored =>
        LET anns == last_set[1].Annotations
            Flag(restriction, prop) ==
                \A pv \in OwnPropertyValues(anns, restriction, prop) :
                    ~pv.hasBool \/ BoolSaysTrue(pv)
        IN  /\ LastRecord.insertable = Flag(InsertRestrictions, "Insertable")
            /\ LastRecord.updatable = Flag(UpdateRestrictions, "Updatable")
            /\ LastRecord.deletable = Flag(DeleteRestrictions, "Deletable")

\* an Insertable with Bool="True" and an Updatable with Bool="false" on one
\* entity set: insertable and deletable stay true, updatable is false
C14_Witness ==
    /\ LastSetStored
    /\ \E pv \in OwnPropertyValues(last_set[1].Annotations, InsertRestrictions,
                                   "Insertable") : pv.Bool = BoolTrueUpper
    /\ OwnPropertyValues(last_set[1].Annotations, UpdateRestrictions, "Updatable") # {}
    /\ LastRecord = [insertable |-> TRUE, updatable |-> FALSE, deletable |-> TRUE]

(* C15: after extraction, for every entity set S of this metadata with     *)
(* backing type T, the record under S and the record under the bare name   *)
(* of T are the same record, the one derived from S's annotations, also    *)
(* when several entity sets share a backing type.                          *)
C15_TypeRecordIsTheSetsRecord ==
    /\ LastSetStored => LastRecord = ExtractCapabilities(last_set[1])
    /\ (pc = "convert" /\ run = 1) =>
          \A S \in DOMAIN entity_set_to_type :
              /\ entity_set_to_type[S] \in OrderedKeys(entity_type_capabilities)
              /\ OrderedGet(entity_type_capabilities, entity_set_to_type[S])
                    = edmx_capabilities[S]

\* a segment without its key suffix
SegmentName(segment) ==
    IF HasChar(segment, "(") THEN SubSeq(segment, 1, FirstIndex(segment, "(", 1) - 1)
    ELSE segment

\* the name in the first segment after the scope prefix, or in the first
\* segment of an unscoped path; <<>> when there is none
FirstScopedName(path) ==
    LET segments == PathSegments(path)
    IN  IF StartsWith(segments[1], CompaniesParen)
        THEN IF Len(segments) >= 2 THEN SegmentName(segments[2]) ELSE <<>>
        ELSE SegmentName(segments[1])

\* the entity type a schema reference names: provider prefix and -create or
\* -update suffix stripped; <<>> when it is no provider schema
RefTypeName(ref) ==
    IF ~StartsWith(ref, SchemaRefPrefix \o NavNamespace) THEN <<>>
    ELSE LET name == DropFirst(ref, Len(SchemaRefPrefix) + Len(NavNamespace))
         IN  IF EndsWith(name, CreateSuffix) \/ EndsWith(name, UpdateSuffix)
             THEN SubSeq(name, 1, Len(name) - Len(CreateSuffix))
             ELSE name

\* the entity type resolved from the get response schema, else from the
\* patch request-body schema
OperationTypeName(item) ==
    LET by_get == IF "get" \in DOMAIN item THEN RefTypeName(item.get.response200Ref)
                  ELSE <<>>
        by_patch == IF "patch" \in DOMAIN item
                    THEN RefTypeName(item.patch.requestBodyRef) ELSE <<>>
    IN  IF by_get # <<>> THEN by_get ELSE by_patch

\* the ordered chain: <<record>> or <<>>
ChainRecord(path, item) ==
    LET set_name == FirstScopedName(path)
        type_name == OperationTypeName(item)
        last_name == SegmentName(PathSegments(path)[Len(PathSegments(path))])
        TypeRecord(n) ==
            (CHOOSE e \in { entity_type_capabilities[i] :
                              i \in 1..Len(entity_type_capabilities) } : e.key = n).value
        known == { entity_type_capabilities[i].key :
                     i \in 1..Len(entity_type_capabilities) }
    IN  IF set_name # <<>> /\ set_name \in DOMAIN edmx_capabilities
        THEN <<edmx_capabilities[set_name]>>
        ELSE IF type_name # <<>> /\ type_name \in known THEN <<TypeRecord(type_name)>>
        ELSE IF last_name \in known THEN <<TypeRecord(last_name)>>
        ELSE <<>>

\* no restricted entity type has its name after a slash in the path
NoOverrideApplies(path) ==
    \A i \in 1..Len(entity_type_capabilities) :
        LET e == entity_type_capabilities[i]
        IN  ~(Contains(path, <<"/">> \o e.key) /\
              (~e.value.insertable \/ ~e.value.updatable \/ ~e.value.deletable))

(* C16: when no override applies, the operations capability enforcement    *)
(* removes from a path are those disallowed by the record of the ordered   *)
(* chain: the entity set named by the first scoped segment, else the       *)
(* entity type of the get response or patch request-body schema, else the  *)
(* entity type named by the last segment; none, and nothing is removed.    *)
C16_ChainRecordGoverns ==
    pc = "prune" =>
        \A p \in DOMAIN pre_enforce :
            NoOverrideApplies(p) =>
                DOMAIN openapi_spec.paths[p] =
                    { k \in DOMAIN pre_enforce[p] :
                        ~Disallows(ChainRecord(p, pre_enforce[p]), k) }

\* the patch request body decides: Stock is no declared entity set, its
\* patch names the type Item, which is not updatable
C16_Witness ==
    /\ pc = "prune"
    /\ PathStock \in DOMAIN pre_enforce
    /\ NoOverrideApplies(PathStock)
    /\ StockName \notin DOMAIN edmx_capabilities
    /\ "patch" \in DOMAIN pre_enforce[PathStock]
    /\ "patch" \notin DOMAIN openapi_spec.paths[PathStock]

(* C17: after capability enforcement, for every path and every restricted  *)
(* entity type whose bare name appears in the path string, no operation    *)
(* that type's record disallows is left on the path.                       *)
C17_EveryRestrictedTypeInPathIsEnforced ==
    pc = "prune" =>
        \A p \in DOMAIN pre_enforce :
            \A i \in 1..Len(entity_type_capabilities) :
                LET e == entity_type_capabilities[i]
                IN  Contains(p, e.key) =>
                        \A k \in DOMAIN openapi_spec.paths[p] :
                            ~Disallows(<<e.value>>, k)

\* the schema names an operation refers to, anywhere inside it
SchemasReferencedBy(operation) ==
    { n \in DOMAIN stage_input.schemas \cup DOMAIN BaseSchemas :
        SchemaRefPrefix \o n \in
            {operation.response200Ref, operation.requestBodyRef} \cup operation.otherRefs }

\* some remaining operation under the method refers to the schema
ReferencedUnder(paths, method, n) ==
    \E p \in DOMAIN paths :
        method \in DOMAIN paths[p] /\ n \in SchemasReferencedBy(paths[p][method])

\* the entity type a -create or -update schema belongs to
BaseTypeOf(n) ==
    LET stem == SubSeq(n, 1, Len(n) - Len(CreateSuffix))
    IN  IF StartsWith(stem, NavNamespace) THEN DropFirst(stem, Len(NavNamespace))
        ELSE stem

\* the type's record forbids what the schema is for
IsCapabilityRestricted(n) ==
    \E i \in 1..Len(entity_type_capabilities) :
        LET e == entity_type_capabilities[i]
        IN  /\ e.key = BaseTypeOf(n)
            /\ \/ EndsWith(n, CreateSuffix) /\ ~e.value.insertable
               \/ EndsWith(n, UpdateSuffix) /\ ~e.value.updatable

IsUnreferencedVariant(paths, n) ==
    \/ EndsWith(n, CreateSuffix) /\ ~ReferencedUnder(paths, "post", n)
    \/ EndsWith(n, UpdateSuffix) /\ ~ReferencedUnder(paths, "patch", n)

(* C18 as stated: schema pruning deletes exactly the -create and -update   *)
(* schemas that no remaining post, respectively patch, operation refers to *)
(* and those whose base type is not insertable, respectively not           *)
(* updatable; every other schema stays, and every schema that stays is     *)
(* unchanged.                                                              *)
C18_PruningDeletesExactlyTheTwoSets ==
    pc = "done" =>
        /\ DOMAIN openapi_spec.schemas =
              { n \in DOMAIN stage_input.schemas :
                  ~(IsUnreferencedVariant(openapi_spec.paths, n)
                    \/ IsCapabilityRestricted(n)) }
        /\ \A n \in DOMAIN openapi_spec.schemas :
              openapi_spec.schemas[n] = stage_input.schemas[n]
        /\ openapi_spec.paths = stage_input.paths

(* C18: on a document that has 'paths' and components.schemas, schema      *)
(* pruning deletes exactly the -create and -update schemas that no         *)
(* remaining post, respectively patch, operation refers to and those whose *)
(* base type is not insertable, respectively not updatable, and leaves     *)
(* every other schema unchanged; on a document lacking either structure it *)
(* deletes nothing.                                                        *)
C18_PruningDeletesTheTwoSetsGivenPaths ==
    pc = "done" =>
        IF stage_input.hasPaths /\ stage_input.hasSchemas
        THEN /\ DOMAIN openapi_spec.schemas =
                   { n \in DOMAIN stage_input.schemas :
                       ~(IsUnreferencedVariant(openapi_spec.paths, n)
                         \/ IsCapabilityRestricted(n)) }
             /\ \A n \in DOMAIN openapi_spec.schemas :
                   openapi_spec.schemas[n] = stage_input.schemas[n]
             /\ openapi_spec.paths = stage_input.paths
        ELSE openapi_spec = stage_input

\* a -create schema goes on capability grounds though a post refers to it,
\* an unreferenced -update schema goes too, and the read schema stays
C18_Witness ==
    /\ pc = "done"
    /\ ReferencedUnder(openapi_spec.paths, "post", SchemaItem \o CreateSuffix)
    /\ SchemaItem \o CreateSuffix \in DOMAIN stage_input.schemas
    /\ SchemaItem \o CreateSuffix \notin DOMAIN openapi_spec.schemas
    /\ SchemaItem \o UpdateSuffix \notin DOMAIN openapi_spec.schemas
    /\ SchemaItem \in DOMAIN openapi_spec.schemas

(* C19: after the enhancement no remaining post or patch operation refers  *)
(* to a schema that is absent from components.schemas.                     *)
C19_NoDanglingMutationRefs ==
    Enhanced =>
        \A p \in DOMAIN openapi_spec.paths :
            \A m \in {"post", "patch"} \cap DOMAIN openapi_spec.paths[p] :
                SchemasReferencedBy(openapi_spec.paths[p][m])
                    \subseteq DOMAIN openapi_spec.schemas

\* the four system-audit property names
AuditFields ==
    {"systemCreatedAt", "systemCreatedBy", "systemModifiedAt", "systemModifiedBy"}

HasMutationSuffix(n) == EndsWith(n, CreateSuffix) \/ EndsWith(n, UpdateSuffix)

(* C20: right after the field scrubber no -create or -update schema has a  *)
(* system-audit property, every other property of those schemas is kept,   *)
(* and every schema without such a suffix has the properties it had; no    *)
(* schema and no path is added or removed.                                 *)
C20_ScrubberRemovesOnlyAuditFields ==
    pc = "enforce" =>
        /\ DOMAIN openapi_spec.schemas = DOMAIN stage_input.schemas
        /\ \A n \in DOMAIN openapi_spec.schemas :
              IF HasMutationSuffix(n)
              THEN /\ openapi_spec.schemas[n] \cap AuditFields = {}
                   /\ openapi_spec.schemas[n] = stage_input.schemas[n] \ AuditFields
              ELSE openapi_spec.schemas[n] = stage_input.schemas[n]
        /\ openapi_spec.paths = stage_input.paths

C20_Witness ==
    /\ pc = "enforce"
    /\ stage_input.hasSchemas
    /\ "systemModifiedBy" \in stage_input.schemas[SchemaItem \o UpdateSuffix]
    /\ openapi_spec.schemas[SchemaItem \o UpdateSuffix] = {"displayName"}
    /\ "systemCreatedAt" \in openapi_spec.schemas[SchemaItem]

(* C21: a base document lacking 'paths', 'components' or                   *)
(* components.schemas is enhanced without error.  Parameter injection      *)
(* creates the shared company parameter under components.parameters and,   *)
(* without 'paths', does nothing else; each later stage leaves the         *)
(* document as it found it when the structure it needs is absent: path     *)
(* pruning and capability enforcement without 'paths', the field scrubber  *)
(* without components.schemas, schema pruning without either.              *)
C21_AbsentStructureIsNoOp ==
    /\ pc = "failed" => openapi_spec = NoDocument
    /\ pc \in {"nav", "scrub", "enforce", "prune", "done", "written"} =>
          /\ exit_status = <<>>
          /\ openapi_spec.hasComponents
          /\ "company" \in openapi_spec.parameters
          /\ openapi_spec.hasPaths = stage_input.hasPaths
          /\ openapi_spec.hasSchemas = stage_input.hasSchemas
    /\ pc = "nav" =>
          /\ openapi_spec.schemas = stage_input.schemas
          /\ ~stage_input.hasPaths => openapi_spec.paths = stage_input.paths
    /\ (pc \in {"scrub", "prune"} /\ ~stage_input.hasPaths) =>
          openapi_spec = stage_input
    /\ (pc = "enforce" /\ ~stage_input.hasSchemas) => openapi_spec = stage_input
    /\ (pc = "done" /\ (~stage_input.hasPaths \/ ~stage_input.hasSchemas)) =>
          openapi_spec = stage_input

\* a document without 'components' has been through parameter injection:
\* the definition is there and /Stock refers to it
C21_Witness ==
    /\ pc = "nav"
    /\ pass = 1
    /\ ~stage_input.hasComponents
    /\ "company" \in openapi_spec.parameters
    /\ PathRootStock \in DOMAIN openapi_spec.paths
    /\ CompanyRefCount(openapi_spec.paths[PathRootStock]) = 1

(* C22: capability enforcement removes no operation from a path whose own  *)
(* entity set, named by the first scoped segment, has an all-true record,  *)
(* whatever restricted entity types the metadata declares.                 *)
C22_UnrestrictedSetKeepsItsOperations ==
    pc = "prune" =>
        \A p \in DOMAIN pre_enforce :
            LET own == FirstScopedName(p)
            IN  (/\ own \in DOMAIN edmx_capabilities
                 /\ edmx_capabilities[own] =
                       [insertable |-> TRUE, updatable |-> TRUE, deletable |-> TRUE])
                => DOMAIN openapi_spec.paths[p] = DOMAIN pre_enforce[p]

=============================================================================
